---- MODULE Spec2Model ----
(***************************************************************************)
(* Model of js-log (src/index.js).  The file holds two generations of the  *)
(* logger:                                                                 *)
(*   - lines 53-264: the structured logger (context tree, level/field      *)
(*     filter, sinks called inline by write);                              *)
(*   - lines 266-421: the batching logger (type/from filter, output        *)
(*     buffer, sync or deferred flush to the sinks).                       *)
(* SpecBatch is the state machine of the batching logger.  The structured  *)
(* logger has one state machine per concern: Spec (context tree),          *)
(* SpecSinks (sink lists), SpecFilter (setFilter and filter), SpecTrees    *)
(* (independent trees and defaultLog), SpecEvent (message, subject, level).*)
(***************************************************************************)
EXTENDS Integers, Sequences, FiniteSets, TLC

\* ---------------------------------------------------------------- bounds
MaxWrites == 2      \* write() calls made in one run (top-level and from sinks)
MaxLogs == 2        \* structured Log objects constructed in one run

\* ------------------------------------------------ batching logger: inputs
Types == {"debug", "error", "info", "trace"}
Froms == {"app"}
\* arguments given to filter(type, from): a string or an array, as the set of
\* its entries
TypeArgs == {{"all", "!error"}}
FromArgs == {{"all"}, {"db"}}
\* sinks other than DefaultLogger: application code, free to throw or to log
CustomLoggers == {"A", "B"}

VARIABLES
    log,        \* the batching Log object (global.log): its fields
    ticks,      \* deferred flush callbacks queued (process.nextTick / setTimeout 0)
    stack,      \* flush() invocations in progress, innermost last
    nwrite,     \* write() calls made so far
    accepted,   \* history: events that passed write()'s filter, in order
    calls,      \* history: logger.write(batch) calls made by flush()
    flushes,    \* history: flush() invocations that found output non-empty
    sched,      \* deferred flushes scheduled since flush() was last invoked
    logs,       \* the structured Log objects, in order of construction
    defaultLog, \* var defaultLog: index in logs of the Log constructed last
    held,       \* the context and ops objects the application holds and passes
    last,       \* what the last call on a structured Log did
    kin         \* history: each Log's parent, own and inherited context

bvars == <<log, ticks, stack, nwrite, accepted, calls, flushes, sched>>
svars == <<logs, defaultLog, held, last, kin>>
vars == <<log, ticks, stack, nwrite, accepted, calls, flushes, sched,
          logs, defaultLog, held, last, kin>>

\* ------------------------------------------------------------- helpers
Msg(n) == "m" \o ToString(n)

RECURSIVE Join(_)
Join(items) ==
    IF Len(items) = 0 THEN ""
    ELSE IF Len(items) = 1 THEN items[1]
    ELSE items[1] \o " " \o Join(Tail(items))

\* prepMsg: string items are kept as they are and joined with single spaces
prepMsg(msg) == Join(msg)

Range(q) == {q[k] : k \in 1..Len(q)}

AtTop == stack = <<>>
Top == stack[Len(stack)]
Pop == SubSeq(stack, 1, Len(stack) - 1)
CurFlush == IF AtTop THEN 0 ELSE Top.id

\* the four guards at the head of write(type, from, ...msg)
Passes(type, from) ==
    /\ (type \in log.type \/ "all" \in log.type)
    /\ ("!" \o type) \notin log.type
    /\ (from \in log.from \/ "all" \in log.from)
    /\ ("!" \o from) \notin log.from

\* ------------------------------------------------------------- flush()
\* flush() entered with the Log object in state L: clears scheduled and, when
\* output is non-empty, starts the loop over the loggers
Batch_flush(L, how) ==
    /\ sched' = 0
    /\ log' = [L EXCEPT !.scheduled = FALSE]
    /\ IF Len(L.output) > 0
       THEN /\ stack' = Append(stack, [i |-> 1, phase |-> "loop",
                                       id |-> Len(flushes) + 1])
            /\ flushes' = Append(flushes,
                    [start |-> L.output, loggers |-> L.loggers, how |-> how,
                     depth |-> Len(stack) + 1, done |-> FALSE, threw |-> FALSE])
       ELSE UNCHANGED <<stack, flushes>>

\* ------------------------------------------------------------- write()
Batch_write(type, from, msg) ==
    /\ nwrite < MaxWrites
    /\ nwrite' = nwrite + 1
    /\ UNCHANGED calls
    /\ IF ~Passes(type, from)
       THEN UNCHANGED <<log, ticks, stack, accepted, flushes, sched>>
       ELSE LET ev == <<type, from, prepMsg(msg)>>
                L == [log EXCEPT !.output = Append(@, ev)]
            IN  /\ accepted' = Append(accepted,
                        [ev |-> ev, loggers |-> log.loggers, flush |-> CurFlush,
                         next |-> Len(flushes)])
                /\ IF log.sync
                   THEN Batch_flush(L, "sync") /\ UNCHANGED ticks
                   ELSE IF ~log.scheduled
                   THEN /\ log' = [L EXCEPT !.scheduled = TRUE]
                        /\ ticks' = ticks + 1
                        /\ sched' = sched + 1
                        /\ UNCHANGED <<stack, flushes>>
                   ELSE /\ log' = L
                        /\ UNCHANGED <<ticks, stack, flushes, sched>>

\* ------------------------------------------------- operations of the caller
Batch_addLogger(logger) ==
    /\ AtTop
    /\ \A k \in 1..Len(log.loggers) : log.loggers[k] # logger
    \* the sinks are interchangeable: they are registered in one fixed order
    /\ logger = "B" => \E k \in 1..Len(log.loggers) : log.loggers[k] = "A"
    /\ log' = [log EXCEPT !.loggers = Append(@, logger)]
    /\ UNCHANGED <<ticks, stack, nwrite, accepted, calls, flushes, sched>>

Batch_filter(type, from) ==
    /\ AtTop
    /\ log' = [log EXCEPT !.type = type, !.from = from]
    /\ UNCHANGED <<ticks, stack, nwrite, accepted, calls, flushes, sched>>

Batch_debug(from) == AtTop /\ Batch_write("debug", from, <<Msg(nwrite + 1)>>)

Batch_error(from) == AtTop /\ Batch_write("error", from, <<Msg(nwrite + 1)>>)

Batch_exception(from) == AtTop /\ Batch_write("error", from, <<Msg(nwrite + 1)>>)

Batch_info(from) == AtTop /\ Batch_write("info", from, <<Msg(nwrite + 1)>>)

Batch_trace(from) == AtTop /\ Batch_write("trace", from, <<Msg(nwrite + 1)>>)

\* an explicit flush() by the application
Flush ==
    /\ AtTop
    /\ Batch_flush(log, "explicit")
    /\ UNCHANGED <<ticks, nwrite, accepted, calls>>

\* the deferred callback scheduled by write() runs: self.flush()
Tick ==
    /\ AtTop
    /\ ticks > 0
    /\ ticks' = ticks - 1
    /\ Batch_flush(log, "tick")
    /\ UNCHANGED <<nwrite, accepted, calls>>

\* ---------------------------------------------- the loop inside flush()
\* logger.write(this.output): this.output is read at each iteration
CallLogger ==
    /\ ~AtTop
    /\ Top.phase = "loop"
    /\ Top.i <= Len(log.loggers)
    /\ calls' = Append(calls, [logger |-> log.loggers[Top.i],
                               batch |-> log.output, flush |-> Top.id])
    /\ stack' = [stack EXCEPT ![Len(stack)].phase = "sink"]
    /\ UNCHANGED <<log, ticks, nwrite, accepted, flushes, sched>>

\* the sink's write returns: next logger
LoggerReturns ==
    /\ ~AtTop
    /\ Top.phase = "sink"
    /\ stack' = [stack EXCEPT ![Len(stack)].phase = "loop",
                              ![Len(stack)].i = @ + 1]
    /\ UNCHANGED <<log, ticks, nwrite, accepted, calls, flushes, sched>>

\* the sink's write throws: the catch around the whole loop logs the error,
\* then this.output = [] runs and flush() returns
LoggerThrows ==
    /\ ~AtTop
    /\ Top.phase = "sink"
    /\ log.loggers[Top.i] \in CustomLoggers
    /\ log' = [log EXCEPT !.output = <<>>]
    /\ stack' = Pop
    /\ flushes' = [flushes EXCEPT ![Top.id].done = TRUE, ![Top.id].threw = TRUE]
    /\ UNCHANGED <<ticks, nwrite, accepted, calls, sched>>

\* the sink's write logs on the same Log before it returns
LoggerLogs(from) ==
    /\ ~AtTop
    /\ Top.phase = "sink"
    /\ log.loggers[Top.i] \in CustomLoggers
    /\ Batch_write("error", from, <<Msg(nwrite + 1)>>)

\* the loop is over: this.output = []
EndFlush ==
    /\ ~AtTop
    /\ Top.phase = "loop"
    /\ Top.i > Len(log.loggers)
    /\ log' = [log EXCEPT !.output = <<>>]
    /\ stack' = Pop
    /\ flushes' = [flushes EXCEPT ![Top.id].done = TRUE]
    /\ UNCHANGED <<ticks, nwrite, accepted, calls, sched>>

\* ----------------------------------------------------------------------
\* The structured logger (src/index.js lines 53-264)
\* ----------------------------------------------------------------------

\* ------------------------------------------------ JavaScript values
\* a value is its type tag t and, by type, a string s, a number n or the
\* properties o of an object
NoProps == <<>>
Undef == [t |-> "undefined", s |-> "", n |-> 0, o |-> NoProps]
Null == [t |-> "null", s |-> "", n |-> 0, o |-> NoProps]
NaN == [t |-> "NaN", s |-> "", n |-> 0, o |-> NoProps]
Str(x) == [t |-> "string", s |-> x, n |-> 0, o |-> NoProps]
Num(k) == [t |-> "number", s |-> "", n |-> k, o |-> NoProps]
Bool(b) == [t |-> "boolean", s |-> "", n |-> IF b THEN 1 ELSE 0, o |-> NoProps]
Obj(f) == [t |-> "object", s |-> "", n |-> 0, o |-> f]

\* obj[k]
Get(obj, k) == IF k \in DOMAIN obj THEN obj[k] ELSE Undef

\* obj[k] = v
Put(obj, k, v) == (k :> v) @@ obj

\* Object.assign(a, b): the properties of a, overwritten and extended by b's
Assign(a, b) == b @@ a

\* the truthiness of a value in a condition
Truthy(v) ==
    CASE v.t = "string" -> v.s # ""
      [] v.t = "number" -> v.n # 0
      [] v.t = "boolean" -> v.n = 1
      [] v.t = "object" -> TRUE
      [] OTHER -> FALSE

\* v != null
NotNullish(v) == v.t \notin {"undefined", "null"}

\* the decimal numerals the inputs use
Numerals == {"-1", "0", "1", "2", "3", "4", "5"}
NumeralValue(x) ==
    CASE x = "-1" -> 0 - 1 [] x = "0" -> 0 [] x = "1" -> 1 [] x = "2" -> 2
      [] x = "3" -> 3 [] x = "4" -> 4 [] x = "5" -> 5

\* ToNumber, as the relational operators and Math.max apply it
ToNumber(v) ==
    CASE v.t = "number" -> v
      [] v.t = "string" -> IF v.s = "" THEN Num(0)
                           ELSE IF v.s \in Numerals THEN Num(NumeralValue(v.s))
                           ELSE NaN
      [] v.t = "boolean" -> Num(v.n)
      [] v.t = "null" -> Num(0)
      [] OTHER -> NaN

\* a < b and a > b on values that are not both strings: false when either
\* side converts to NaN
Less(a, b) ==
    LET x == ToNumber(a)
        y == ToNumber(b)
    IN  x.t = "number" /\ y.t = "number" /\ x.n < y.n

Greater(a, b) == Less(b, a)

\* a filter whose rules never raise the level: the first argument returned
MathMaxKeepsFirst(a, b) == ToNumber(a)

\* Math.max(a, b)
MathMax(a, b) ==
    LET x == ToNumber(a)
        y == ToNumber(b)
    IN  IF x.t # "number" \/ y.t # "number" THEN NaN
        ELSE IF x.n >= y.n THEN x ELSE y

\* the property name a value makes when it indexes an object
PropKey(v) == IF v.t = "string" THEN v.s ELSE IF v.t = "number" THEN ToString(v.n) ELSE v.t

\* Object.entries(obj): the properties in the order they were created; the
\* inputs create them in the order of Keys
Keys == <<"source", "service">>
Entries(obj) ==
    LET ks == SelectSeq(Keys, LAMBDA k : k \in DOMAIN obj)
    IN  [j \in 1..Len(ks) |-> <<ks[j], obj[ks[j]]>>]

\* ------------------------------------------------ filter(params)
\* the loop over top.filterEntries: FALSE as soon as a rule yields a level
\* below 0, else the level raised by every rule
RECURSIVE FilterLevel(_, _, _)
FilterLevel(entries, context, level) ==
    IF entries = <<>> THEN [rejected |-> FALSE, level |-> level]
    ELSE LET key == entries[1][1]
             item == entries[1][2]
             thisLevel == IF Truthy(Get(context, key))
                          THEN Get(item.o, PropKey(Get(context, key)))
                          ELSE Num(0 - 1)
         IN  IF Less(thisLevel, Num(0))
             THEN [rejected |-> TRUE, level |-> level]
             ELSE FilterLevel(Tail(entries), context, MathMax(level, thisLevel))

\* "true", "false", or "throws" when top.filters is set and top.filterEntries
\* was never assigned (for...of over undefined)
FilterOn(top, context) ==
    IF Truthy(top.filters) /\ ~top.filterEntries.set THEN "throws"
    ELSE LET r == IF Truthy(top.filters)
                  THEN FilterLevel(top.filterEntries.list, context, top.level)
                  ELSE [rejected |-> FALSE, level |-> top.level]
         IN  IF r.rejected THEN "false"
             ELSE IF Greater(Get(context, "level"), r.level) THEN "false"
             ELSE "true"

\* this.filter(params) on Log n: let top = this.top
filter(n, context) == FilterOn(logs[logs[n].top], context)

\* ------------------------------------------------ setFilter(params)
\* a string is the sequence of its lexical pieces; split cuts it at every
\* piece equal to the separator
RECURSIVE Split(_, _)
Split(text, sep) ==
    IF \A k \in 1..Len(text) : text[k] # sep THEN <<text>>
    ELSE LET k == CHOOSE k \in 1..Len(text) :
                      text[k] = sep /\ \A j \in 1..(k - 1) : text[j] # sep
         IN  <<SubSeq(text, 1, k - 1)>> \o Split(SubSeq(text, k + 1, Len(text)), sep)

RECURSIVE Concat(_)
Concat(text) == IF text = <<>> THEN "" ELSE text[1] \o Concat(Tail(text))

\* for (let v of values.split(',')): item[value] = level || 4
RECURSIVE ParseValues(_, _)
ParseValues(vs, item) ==
    IF vs = <<>> THEN item
    ELSE LET parts == Split(vs[1], ":")
             value == Concat(parts[1])
             level == IF Len(parts) >= 2 /\ Concat(parts[2]) # ""
                      THEN Str(Concat(parts[2])) ELSE Num(4)
         IN  ParseValues(Tail(vs), Put(item, value, level))

\* for (let match of params.filter.split('/')): a clause with no '=' leaves
\* values undefined and values.split throws, after top.filters[key] = {}
RECURSIVE ParseClauses(_, _)
ParseClauses(ms, filters) ==
    IF ms = <<>> THEN [filters |-> filters, threw |-> FALSE]
    ELSE LET parts == Split(ms[1], "=")
             key == Concat(parts[1])
         IN  IF Len(parts) < 2
             THEN [filters |-> Put(filters, key, Obj(NoProps)), threw |-> TRUE]
             ELSE ParseClauses(Tail(ms),
                      Put(filters, key,
                          Obj(ParseValues(Split(parts[2], ","), NoProps))))

\* the Log object top after top.setFilter's body ran with params, and whether
\* it threw; params is [level, filter, filters], filter a string (text), an
\* object or undefined
SetFilterOn(top, params) ==
    LET t1 == [top EXCEPT !.level = IF Truthy(params.level) THEN params.level
                                    ELSE top.level]
    IN  IF ~Truthy(params.filter) THEN [top |-> t1, threw |-> FALSE]
        ELSE IF params.filter.t = "string"
        THEN LET p == ParseClauses(Split(params.text, "/"), NoProps)
             IN  IF p.threw
                 THEN [top |-> [t1 EXCEPT !.filters = Obj(p.filters)], threw |-> TRUE]
                 ELSE [top |-> [t1 EXCEPT !.filters = Obj(p.filters),
                                          !.filterEntries =
                                              [set |-> TRUE, list |-> Entries(p.filters)]],
                       threw |-> FALSE]
        ELSE [top |-> [t1 EXCEPT !.filters = params.filters,
                                 !.filterEntries =
                                     [set |-> TRUE,
                                      list |-> IF Truthy(params.filters)
                                               THEN Entries(params.filters.o)
                                               ELSE <<>>]],
              threw |-> FALSE]

\* what a call did: for setFilter its params and the root as it was before,
\* for a log method the message and the context object it was given
NoLast == [op |-> "none", node |-> 0, call |-> NoProps, event |-> NoProps,
           ops |-> NoProps, called |-> <<>>, printed |-> FALSE, threw |-> FALSE,
           ret |-> "none", params |-> NoProps, before |-> NoProps,
           message |-> Undef, given |-> NoProps]

setFilter(n, params) ==
    LET r == SetFilterOn(logs[logs[n].top], params)
    IN  /\ logs' = [logs EXCEPT ![logs[n].top] = r.top]
        /\ last' = [NoLast EXCEPT !.op = "setFilter", !.node = n, !.threw = r.threw,
                                  !.params = params, !.before = logs[logs[n].top]]
        /\ UNCHANGED <<defaultLog, held, kin>>

\* a logger (or the application) evaluates log.filter(params)
CallFilter(n, context) ==
    /\ last' = [NoLast EXCEPT !.op = "filter", !.node = n, !.event = context,
                              !.ret = filter(n, context),
                              !.threw = (filter(n, context) = "throws")]
    /\ UNCHANGED <<logs, defaultLog, held, kin>>

\* ------------------------------------------------ constructor, child
\* new Log(options, context): the fields the constructor sets
NewLog(options, context, self) ==
    [context |-> context, options |-> options,
     loggers |-> IF options = "console" THEN <<"DefaultLogger">> ELSE <<>>,
     filters |-> Null, filterEntries |-> [set |-> FALSE, list |-> <<>>],
     top |-> self, level |-> Num(0)]

\* an independent Log is constructed
Construct(options, context) ==
    /\ Len(logs) < MaxLogs
    /\ logs' = Append(logs, NewLog(options, context, Len(logs) + 1))
    /\ defaultLog' = Len(logs) + 1
    /\ kin' = Append(kin, [parent |-> 0, own |-> context, inherited |-> NoProps,
                           sinks |-> <<>>, added |-> <<>>])
    /\ last' = [NoLast EXCEPT !.op = "new", !.node = Len(logs) + 1]
    /\ UNCHANGED held

\* a child that starts from its own context only, without the parent's
ChildOfOwnContextOnly(n, context, self) ==
    [NewLog(logs[n].options, context, self)
        EXCEPT !.loggers = logs[n].loggers, !.top = logs[n].top]

\* the Log that this.child(context) returns
ChildOf(n, context, self) ==
    [NewLog(logs[n].options, Assign(logs[n].context, context), self)
        EXCEPT !.loggers = logs[n].loggers, !.top = logs[n].top]

child(n, context) ==
    /\ Len(logs) < MaxLogs
    /\ logs' = Append(logs, ChildOf(n, context, Len(logs) + 1))
    /\ defaultLog' = Len(logs) + 1
    /\ kin' = Append(kin, [parent |-> n, own |-> context,
                           inherited |-> Assign(kin[n].inherited, kin[n].own),
                           sinks |-> logs[n].loggers, added |-> <<>>])
    /\ last' = [NoLast EXCEPT !.op = "child", !.node = Len(logs) + 1]
    /\ UNCHANGED held

addLogger(n, logger) ==
    /\ \A k \in 1..Len(logs[n].loggers) : logs[n].loggers[k] # logger
    /\ logs' = [logs EXCEPT ![n].loggers = Append(@, logger)]
    /\ kin' = [kin EXCEPT ![n].added = Append(@, logger)]
    /\ last' = [NoLast EXCEPT !.op = "addLogger", !.node = n]
    /\ UNCHANGED <<defaultLog, held>>

addContext(n, context) ==
    /\ logs' = [logs EXCEPT ![n].context = Assign(@, context)]
    /\ kin' = [kin EXCEPT ![n].own = Assign(@, context)]
    /\ last' = [NoLast EXCEPT !.op = "addContext", !.node = n]
    /\ UNCHANGED <<defaultLog, held>>

\* ------------------------------------------------ submit, prep, write
\* a submit that sets level 0 whatever the context holds
SubmitContextLevelZero(type, message, context) ==
    LET c1 == IF Truthy(Get(context, "message"))
              THEN Put(context, "subject", message)
              ELSE Put(context, "message", message)
    IN  Put(Put(c1, "type", Str(type)), "level", Num(0))

\* submit's own copy of the context, with message or subject, type and level
SubmitContext(type, message, context) ==
    LET c1 == IF Truthy(Get(context, "message"))
              THEN Put(context, "subject", message)
              ELSE Put(context, "message", message)
        c2 == Put(c1, "type", Str(type))
    IN  Put(c2, "level", IF NotNullish(Get(c2, "level")) THEN Get(c2, "level")
                         ELSE Num(0))

\* prep's changes to the call's context: the exception copied with its
\* message and code, the time and the cutoff
PrepContext(n, context) ==
    LET err == Get(context, "exception")
        c1 == IF Truthy(err)
              THEN Put(context, "exception",
                       Obj(Put(Put(err.o, "message", Get(err.o, "message")),
                               "code", Get(err.o, "code"))))
              ELSE context
        c2 == Put(c1, "time", Str("now"))
    IN  Put(c2, "cutoff", logs[logs[n].top].level)

\* prep sets ops.notify on the caller's ops when the context has a template
PrepOps(context, ops) ==
    IF Truthy(Get(context, "template")) THEN Put(ops, "notify", Bool(TRUE)) ELSE ops

\* params.context = Object.assign({}, this.context, context)
prep(n, context) == Assign(logs[n].context, PrepContext(n, context))

\* DefaultLogger.write(params): "printed", "silent" or "throws"; the global
\* app it reads when the event has no source is taken to be defined by the
\* application
DefaultLoggerWrite(event, ops) ==
    IF Get(ops, "log") = Bool(FALSE) THEN "silent"
    ELSE LET r == filter(defaultLog, event)
         IN  IF r = "throws" THEN "throws" ELSE IF r = "true" THEN "printed" ELSE "silent"

\* what logger number k of Log n does with the event; throwAt is the place
\* of the custom logger whose write throws (0: none does)
LoggerOutcome(n, k, event, ops, throwAt) ==
    IF logs[n].loggers[k] = "DefaultLogger" THEN DefaultLoggerWrite(event, ops)
    ELSE IF k = throwAt THEN "throws" ELSE "written"

\* for (let logger of this.loggers) logger.write(params), from logger k on:
\* the loggers called, up to and including the first whose write throws
RECURSIVE WriteFrom(_, _, _, _, _)
WriteFrom(n, k, event, ops, throwAt) ==
    IF k > Len(logs[n].loggers)
    THEN [called |-> <<>>, printed |-> FALSE, threw |-> FALSE]
    ELSE LET r == LoggerOutcome(n, k, event, ops, throwAt)
         IN  IF r = "throws"
             THEN [called |-> <<logs[n].loggers[k]>>, printed |-> FALSE, threw |-> TRUE]
             ELSE LET rest == WriteFrom(n, k + 1, event, ops, throwAt)
                  IN  [called |-> <<logs[n].loggers[k]>> \o rest.called,
                       printed |-> (r = "printed") \/ rest.printed,
                       threw |-> rest.threw]

WriteLoop(n, event, ops, throwAt) == WriteFrom(n, 1, event, ops, throwAt)

\* this.submit(type, message, context, ops) on Log n: context is the object
\* given to submit, ops the caller's ops as prep leaves it
submit(n, op, type, message, context, ops, throwAt, given) ==
    LET call == PrepContext(n, SubmitContext(type, message, context))
        event == prep(n, SubmitContext(type, message, context))
        w == WriteLoop(n, event, ops, throwAt)
    IN  last' = [NoLast EXCEPT !.op = op, !.node = n, !.call = call, !.event = event,
                              !.ops = ops, !.called = w.called,
                              !.printed = w.printed, !.threw = w.threw,
                              !.message = message, !.given = given]

\* ------------------------------------------------ the log methods
\* useContext / useOps: the application passes the object it holds, or leaves
\* the argument out
ContextArg(useContext) == IF useContext THEN held.context ELSE NoProps
OpsArg(useOps) == IF useOps THEN held.ops ELSE NoProps

\* the objects the application holds after a call that left the context
\* object as context and ran prep on its ops
HeldAfter(useContext, useOps, context, submitted) ==
    [context |-> IF useContext THEN context ELSE held.context,
     ops |-> IF useOps THEN PrepOps(submitted, held.ops) ELSE held.ops]

ThrowPlaces(n) ==
    {0} \cup {k \in 1..Len(logs[n].loggers) : logs[n].loggers[k] # "DefaultLogger"}

debug(n, message, useContext, useOps, throwAt) ==
    LET context == ContextArg(useContext)
    IN  /\ throwAt \in ThrowPlaces(n)
        /\ submit(n, "debug", "debug", message, context,
                  PrepOps(context, OpsArg(useOps)), throwAt, ContextArg(useContext))
        /\ held' = HeldAfter(useContext, useOps, context, context)
        /\ UNCHANGED <<logs, defaultLog, kin>>

info(n, message, useContext, useOps, throwAt) ==
    LET context == ContextArg(useContext)
    IN  /\ throwAt \in ThrowPlaces(n)
        /\ submit(n, "info", "info", message, context,
                  PrepOps(context, OpsArg(useOps)), throwAt, ContextArg(useContext))
        /\ held' = HeldAfter(useContext, useOps, context, context)
        /\ UNCHANGED <<logs, defaultLog, kin>>

\* messages that contain "Cannot read property 'split'"
SplitMessages == {Str("Cannot read property 'split' of undefined")}

\* error() stores a stack in the context object when the message matches
error(n, message, useContext, useOps, throwAt) ==
    LET context == IF message \in SplitMessages
                   THEN Put(ContextArg(useContext), "stack", Str("stack"))
                   ELSE ContextArg(useContext)
    IN  /\ throwAt \in ThrowPlaces(n)
        /\ submit(n, "error", "error", message, context,
                  PrepOps(context, OpsArg(useOps)), throwAt, ContextArg(useContext))
        /\ held' = HeldAfter(useContext, useOps, context, context)
        /\ UNCHANGED <<logs, defaultLog, kin>>

\* exception() copies the context before it stores err in it
exception(n, message, err, useContext, useOps, throwAt) ==
    LET context == Put(ContextArg(useContext), "exception", err)
    IN  /\ throwAt \in ThrowPlaces(n)
        /\ submit(n, "exception", "exception", message, context,
                  PrepOps(context, OpsArg(useOps)), throwAt, ContextArg(useContext))
        /\ held' = HeldAfter(useContext, useOps, ContextArg(useContext), context)
        /\ UNCHANGED <<logs, defaultLog, kin>>

\* trace() sets level in the context object it was given
trace(n, message, useContext, useOps, throwAt) ==
    LET given == ContextArg(useContext)
        context == Put(given, "level",
                       IF NotNullish(Get(given, "level")) THEN Get(given, "level")
                       ELSE Num(5))
    IN  /\ throwAt \in ThrowPlaces(n)
        /\ submit(n, "trace", "trace", message, context,
                  PrepOps(context, OpsArg(useOps)), throwAt, ContextArg(useContext))
        /\ held' = HeldAfter(useContext, useOps, context, context)
        /\ UNCHANGED <<logs, defaultLog, kin>>

\* the application replaces the objects it holds by fresh ones
Hold(context, ops) ==
    /\ held' = [context |-> context, ops |-> ops]
    /\ last' = [NoLast EXCEPT !.op = "hold"]
    /\ UNCHANGED <<logs, defaultLog, kin>>

\* ------------------------------------------------ structured logger: inputs
Options == {"console", "none"}
RootContexts == {[service |-> Str("api")]}
TreeContexts == {[source |-> Str("db")], [service |-> Str("web")]}
CallContexts == {NoProps, [source |-> Str("aws")]}
Messages == {Str("connected")}
Errors == {Obj([message |-> Str("boom"), code |-> Str("E1")])}

\* filter specifications given to setFilter as objects
SourceRule == Obj([source |-> Obj([aws |-> Num(4), web |-> Num(0 - 1)])])
TwoRules == Obj([source |-> Obj([aws |-> Num(2), web |-> Num(0)]),
                 service |-> Obj([api |-> Num(3)])])
\* and as text: "source=aws:4,web:-1"
SourceText == <<"source", "=", "aws", ":", "4", ",", "web", ":", "-1">>
\* "source=aws:2,web:0/service=api:3"
TwoText == <<"source", "=", "aws", ":", "2", ",", "web", ":", "0", "/",
             "service", "=", "api", ":", "3">>
\* a value written without a level: "source=aws,web:-1"
NoLevelText == <<"source", "=", "aws", ",", "web", ":", "-1">>
\* a clause with no '=': "source"
MalformedText == <<"source">>
\* the params given to setFilter
FilterParams ==
    {[level |-> Num(1), filter |-> Undef, text |-> <<>>, filters |-> Undef],
     [level |-> Undef, filter |-> SourceRule, text |-> <<>>, filters |-> SourceRule],
     [level |-> Undef, filter |-> TwoRules, text |-> <<>>, filters |-> TwoRules],
     [level |-> Undef, filter |-> Str("source=aws:4,web:-1"), text |-> SourceText,
      filters |-> Undef],
     [level |-> Undef, filter |-> SourceRule, text |-> <<>>, filters |-> Undef],
     [level |-> Undef, filter |-> Str("source=aws,web:-1"), text |-> NoLevelText,
      filters |-> Undef],
     [level |-> Num(1), filter |-> Str("source"), text |-> MalformedText,
      filters |-> Undef]}
\* the contexts (events) given to filter
EventContexts ==
    {c \in [{"source", "service", "level"} ->
                {Undef, Str("aws"), Str("web"), Str("db"), Str("api"),
                 Num(0), Num(3), Num(5)}] :
        /\ c["source"] \in {Undef, Str("aws"), Str("web"), Str("db")}
        /\ c["service"] \in {Undef, Str("api"), Str("db")}
        /\ c["level"] \in {Num(0), Num(3), Num(5)}}

\* contexts holding a message, for a node and for a call; call contexts
\* holding a level
MessageContexts == {NoProps, [message |-> Str("inherited")]}
EventCallContexts == {NoProps, [message |-> Str("given")], [level |-> Num(0)],
                      [level |-> Num(3)]}
\* setFilter({level: 5})
LevelFive == [level |-> Num(5), filter |-> Undef, text |-> <<>>, filters |-> Undef]
\* setFilter({level: 0})
LevelZero == [level |-> Num(0), filter |-> Undef, text |-> <<>>, filters |-> Undef]
\* setFilter({level: 1})
LevelOne == [level |-> Num(1), filter |-> Undef, text |-> <<>>, filters |-> Undef]

Nodes == 1..Len(logs)
\* the places a logger can have in a list of loggers, and 0
Places == 0..(Cardinality(CustomLoggers) + 1)

\* ----------------------------------------------------------------------
\* Specifications
\* ----------------------------------------------------------------------
BatchIdle ==
    /\ log = [loggers |-> <<>>, output |-> <<>>, type |-> {"all"}, from |-> {"all"},
              sync |-> FALSE, scheduled |-> FALSE]
    /\ ticks = 0
    /\ stack = <<>>
    /\ nwrite = 0
    /\ accepted = <<>>
    /\ calls = <<>>
    /\ flushes = <<>>
    /\ sched = 0

\* let log = new Log(options, context)
InitLog(options, contexts) ==
    /\ \E o \in options, c \in contexts :
         /\ logs = <<NewLog(o, c, 1)>>
         /\ kin = <<[parent |-> 0, own |-> c, inherited |-> NoProps,
                    sinks |-> <<>>, added |-> <<>>]>>
    /\ defaultLog = 1
    /\ held = [context |-> NoProps, ops |-> NoProps]
    /\ last = NoLast

\* ---- Spec: the context tree (child, addContext, the log methods)
Init == InitLog({"console"}, RootContexts) /\ BatchIdle

Next ==
    \/ /\ \E n \in Nodes, c \in TreeContexts : child(n, c)
       /\ UNCHANGED bvars
    \/ /\ \E n \in Nodes, c \in TreeContexts : addContext(n, c)
       /\ UNCHANGED bvars
    \/ /\ \E c \in CallContexts : Hold(c, NoProps)
       /\ UNCHANGED bvars
    \/ /\ \E n \in Nodes, m \in Messages, uc \in BOOLEAN : debug(n, m, uc, FALSE, 0)
       /\ UNCHANGED bvars
    \/ /\ \E n \in Nodes, m \in Messages, uc \in BOOLEAN : info(n, m, uc, FALSE, 0)
       /\ UNCHANGED bvars
    \/ /\ \E n \in Nodes, m \in Messages, uc \in BOOLEAN : error(n, m, uc, FALSE, 0)
       /\ UNCHANGED bvars
    \/ /\ \E n \in Nodes, m \in Messages, e \in Errors, uc \in BOOLEAN :
             exception(n, m, e, uc, FALSE, 0)
       /\ UNCHANGED bvars
    \/ /\ \E n \in Nodes, m \in Messages, uc \in BOOLEAN : trace(n, m, uc, FALSE, 0)
       /\ UNCHANGED bvars

Spec == Init /\ [][Next]_vars

\* ---- SpecSinks: the sink lists (addLogger, child, write's loop)
InitSinks == InitLog(Options, {NoProps}) /\ BatchIdle

NextSinks ==
    \/ /\ \E o \in Options : Construct(o, NoProps)
       /\ UNCHANGED bvars
    \/ /\ \E n \in Nodes : child(n, NoProps)
       /\ UNCHANGED bvars
    \/ /\ \E n \in Nodes, l \in CustomLoggers : addLogger(n, l)
       /\ UNCHANGED bvars
    \/ /\ \E n \in Nodes, m \in Messages, k \in Places : info(n, m, FALSE, FALSE, k)
       /\ UNCHANGED bvars
    \/ /\ \E n \in Nodes, m \in Messages, k \in Places : trace(n, m, FALSE, FALSE, k)
       /\ UNCHANGED bvars

SpecSinks == InitSinks /\ [][NextSinks]_vars

\* ---- SpecFilter: the filter (setFilter, filter)
InitFilter == InitLog({"console"}, {NoProps}) /\ BatchIdle

NextFilter ==
    \/ /\ \E n \in Nodes : child(n, NoProps)
       /\ UNCHANGED bvars
    \/ /\ \E n \in Nodes, p \in FilterParams : setFilter(n, p)
       /\ UNCHANGED bvars
    \/ /\ \E n \in Nodes, c \in EventContexts : CallFilter(n, c)
       /\ UNCHANGED bvars
    \/ /\ \E n \in Nodes, m \in Messages : info(n, m, FALSE, FALSE, 0)
       /\ UNCHANGED bvars

SpecFilter == InitFilter /\ [][NextFilter]_vars

\* ---- SpecTrees: several trees, each with its root's filter
InitTrees == InitLog({"console"}, {NoProps}) /\ BatchIdle

NextTrees ==
    \/ /\ Construct("console", NoProps)
       /\ UNCHANGED bvars
    \/ /\ \E n \in Nodes : child(n, NoProps)
       /\ UNCHANGED bvars
    \/ /\ \E n \in Nodes, p \in {LevelOne, LevelFive} : setFilter(n, p)
       /\ UNCHANGED bvars
    \/ /\ \E n \in Nodes, c \in EventCallContexts : CallFilter(n, c)
       /\ UNCHANGED bvars
    \/ /\ \E n \in Nodes, m \in Messages : info(n, m, FALSE, FALSE, 0)
       /\ UNCHANGED bvars
    \/ /\ \E n \in Nodes, m \in Messages : trace(n, m, FALSE, FALSE, 0)
       /\ UNCHANGED bvars

SpecTrees == InitTrees /\ [][NextTrees]_vars

\* ---- SpecEvent: the event a log call builds (message, subject, level)
InitEvent == InitLog({"console"}, MessageContexts) /\ BatchIdle

NextEvent ==
    \/ /\ \E n \in Nodes, c \in MessageContexts : child(n, c)
       /\ UNCHANGED bvars
    \/ /\ \E n \in Nodes, p \in {LevelZero, LevelFive} : setFilter(n, p)
       /\ UNCHANGED bvars
    \/ /\ \E c \in EventCallContexts : Hold(c, NoProps)
       /\ UNCHANGED bvars
    \/ /\ \E n \in Nodes, m \in Messages, uc \in BOOLEAN : debug(n, m, uc, FALSE, 0)
       /\ UNCHANGED bvars
    \/ /\ \E n \in Nodes, m \in Messages, uc \in BOOLEAN : info(n, m, uc, FALSE, 0)
       /\ UNCHANGED bvars
    \/ /\ \E n \in Nodes, m \in Messages, uc \in BOOLEAN : error(n, m, uc, FALSE, 0)
       /\ UNCHANGED bvars
    \/ /\ \E n \in Nodes, m \in Messages, e \in Errors, uc \in BOOLEAN :
             exception(n, m, e, uc, FALSE, 0)
       /\ UNCHANGED bvars
    \/ /\ \E n \in Nodes, m \in Messages, uc \in BOOLEAN : trace(n, m, uc, FALSE, 0)
       /\ UNCHANGED bvars

SpecEvent == InitEvent /\ [][NextEvent]_vars

\* ---- SpecBatch: the batching logger (write, flush, the sinks)
\* new Log(options): options == 'console' adds DefaultLogger and sets sync
InitBatch ==
    /\ \E console \in BOOLEAN :
         log = [loggers |-> IF console THEN <<"DefaultLogger">> ELSE <<>>,
                output |-> <<>>, type |-> {"all"}, from |-> {"all"},
                sync |-> console, scheduled |-> FALSE]
    /\ ticks = 0
    /\ stack = <<>>
    /\ nwrite = 0
    /\ accepted = <<>>
    /\ calls = <<>>
    /\ flushes = <<>>
    /\ sched = 0
    /\ logs = <<>>
    /\ kin = <<>>
    /\ defaultLog = 0
    /\ held = [context |-> NoProps, ops |-> NoProps]
    /\ last = NoLast

NextBatch ==
    \/ /\ \E l \in CustomLoggers : Batch_addLogger(l)
       /\ UNCHANGED svars
    \/ /\ \E t \in TypeArgs, f \in FromArgs : Batch_filter(t, f)
       /\ UNCHANGED svars
    \/ /\ \E f \in Froms : Batch_debug(f)
       /\ UNCHANGED svars
    \/ /\ \E f \in Froms : Batch_error(f)
       /\ UNCHANGED svars
    \/ /\ \E f \in Froms : Batch_exception(f)
       /\ UNCHANGED svars
    \/ /\ \E f \in Froms : Batch_info(f)
       /\ UNCHANGED svars
    \/ /\ \E f \in Froms : Batch_trace(f)
       /\ UNCHANGED svars
    \/ /\ Flush
       /\ UNCHANGED svars
    \/ /\ Tick
       /\ UNCHANGED svars
    \/ /\ CallLogger
       /\ UNCHANGED svars
    \/ /\ LoggerReturns
       /\ UNCHANGED svars
    \/ /\ LoggerThrows
       /\ UNCHANGED svars
    \/ /\ \E f \in Froms : LoggerLogs(f)
       /\ UNCHANGED svars
    \/ /\ EndFlush
       /\ UNCHANGED svars

SpecBatch == InitBatch /\ [][NextBatch]_vars

\* ------------------------------------------- batching logger: properties
\* the events accepted by top-level log calls after flush f - 1 began and
\* before flush f began, in submission order
Between(f) ==
    LET idx == SelectSeq([k \in 1..Len(accepted) |-> k],
                         LAMBDA k : accepted[k].flush = 0 /\ accepted[k].next = f - 1)
    IN  [j \in 1..Len(idx) |-> accepted[idx[j]].ev]

\* the write calls flush f made to logger l
CallsOf(f, l) == {k \in 1..Len(calls) : calls[k].flush = f /\ calls[k].logger = l}

Quiescent == AtTop /\ ticks = 0 /\ log.output = <<>>

\* C1: the batch the next flush hands to each sink is exactly the events
\* accepted between the two flushes, in submission order.
C1_BatchIsSubmissionOrder ==
    \A f \in 1..Len(flushes) :
        (flushes[f].done /\ flushes[f].depth = 1) =>
            \A l \in Range(flushes[f].loggers) :
                /\ CallsOf(f, l) # {}
                /\ \A k \in CallsOf(f, l) : calls[k].batch = Between(f)

\* C2: a burst of accepted submits on an asynchronous logger schedules one
\* deferred flush, and that flush makes exactly one write call to each sink,
\* carrying the whole burst in order.
C2_BurstOneFlushOneWrite ==
    /\ (~log.sync /\ AtTop /\ log.output # <<>>) => (sched = 1 /\ log.scheduled)
    /\ \A f \in 1..Len(flushes) :
        (flushes[f].done /\ flushes[f].how = "tick") =>
            \A l \in Range(flushes[f].loggers) :
                /\ Cardinality(CallsOf(f, l)) = 1
                /\ \A k \in CallsOf(f, l) : calls[k].batch = Between(f)

\* C3: when a sink's write throws during a flush, every sink registered
\* after it still receives the same batch in that flush.
C3_FailingSinkDoesNotStopOthers ==
    \A f \in 1..Len(flushes) :
        (flushes[f].done /\ flushes[f].threw) =>
            \A l \in Range(flushes[f].loggers) :
                \E k \in CallsOf(f, l) : calls[k].batch = flushes[f].start

\* C8: once everything scheduled has run, every accepted event has reached
\* every sink registered when it was submitted, exactly once.
C8_AcceptedDeliveredOnce ==
    Quiescent =>
        \A a \in 1..Len(accepted) : \A l \in Range(accepted[a].loggers) :
            Cardinality({k \in 1..Len(calls) :
                calls[k].logger = l /\ accepted[a].ev \in Range(calls[k].batch)}) = 1

\* C9: no sink is ever handed an empty batch.
C9_NoEmptyBatch ==
    \A k \in 1..Len(calls) : calls[k].batch # <<>>

\* ----------------------------------------- structured logger: properties
LogOps == {"debug", "info", "error", "exception", "trace"}

\* the rules declared on the root of Log n: the entries of top.filters
RulesInForce(n) ==
    LET top == logs[logs[n].top]
    IN  IF Truthy(top.filters) THEN Entries(top.filters.o) ELSE <<>>

\* the level rule r maps the event's field to; Undef when the field's value
\* is no key of the rule's mapping
RuleLevel(r, e) == Get(r[2].o, PropKey(Get(e, r[1])))

MaxOf(S) == CHOOSE m \in S : \A x \in S : x <= m

\* C4: a sink's write that throws never propagates to the caller of a log
\* method.
C4_SinkFailureNeverPropagates ==
    last.op \in LogOps => ~last.threw

\* C5: an event carrying a declared filter field whose value is not a key of
\* that field's mapping is rejected by filter(), whatever its level.
C5_UnmappedValueRejected ==
    (/\ last.op = "filter"
     /\ \E k \in 1..Len(RulesInForce(last.node)) :
            LET r == RulesInForce(last.node)[k]
            IN  /\ Truthy(Get(last.event, r[1]))
                /\ PropKey(Get(last.event, r[1])) \notin DOMAIN r[2].o)
    => last.ret = "false"

\* C6: when every declared filter field of the event maps to a level >= 0 (or
\* there are no rules), filter() accepts iff event.level <= max(globalLevel,
\* matched levels); a value mapped to a negative level rejects; with
\* globalLevel 0 and source:{aws:4, web:-1}, (0, aws) and (3, aws) are accepted
\* and (0, web) is rejected.
C6_AcceptIffWithinEffectiveLevel ==
    last.op = "filter" =>
        LET rules == RulesInForce(last.node)
            e == last.event
            global == logs[logs[last.node].top].level
            mapped == \A k \in 1..Len(rules) :
                         /\ Truthy(Get(e, rules[k][1]))
                         /\ PropKey(Get(e, rules[k][1])) \in DOMAIN rules[k][2].o
            levels == {ToNumber(RuleLevel(rules[k], e)).n : k \in 1..Len(rules)}
        IN  /\ (mapped /\ \A x \in levels : x >= 0) =>
                   (last.ret = "true" <=>
                        Get(e, "level").n <= MaxOf(levels \cup {global.n}))
            /\ (mapped /\ \E x \in levels : x < 0) => last.ret = "false"
            /\ (/\ global = Num(0)
                /\ Len(rules) = 1
                /\ rules[1][1] = "source"
                /\ DOMAIN rules[1][2].o = {"aws", "web"}
                /\ ToNumber(rules[1][2].o["aws"]) = Num(4)
                /\ ToNumber(rules[1][2].o["web"]) = Num(0 - 1)
                /\ Get(e, "service") = Undef) =>
                   /\ (Get(e, "source") = Str("aws") /\ Get(e, "level").n \in {0, 3})
                          => last.ret = "true"
                   /\ (Get(e, "source") = Str("web") /\ Get(e, "level").n = 0)
                          => last.ret = "false"

\* C6 witness: the scenario's third event, level 3 with source aws, accepted
\* under globalLevel 0 and source:{aws:4, web:-1}
C6_Witness ==
    /\ last.op = "filter"
    /\ last.ret = "true"
    /\ Get(last.event, "source") = Str("aws")
    /\ Get(last.event, "level") = Num(3)
    /\ logs[logs[last.node].top].level = Num(0)
    /\ Len(RulesInForce(last.node)) = 1
    /\ DOMAIN RulesInForce(last.node)[1][2].o = {"aws", "web"}

\* the contexts of the chain from the root to Log n as they are now, merged
\* root first
RECURSIVE ChainNow(_)
ChainNow(n) ==
    IF kin[n].parent = 0 THEN kin[n].own
    ELSE Assign(ChainNow(kin[n].parent), kin[n].own)

\* the context Log n got when it was derived, overlaid by what was added to
\* Log n itself
Snapshot(n) == Assign(kin[n].inherited, kin[n].own)

IsPrefix(p, q) == Len(p) <= Len(q) /\ SubSeq(q, 1, Len(p)) = p

\* C10: for an event logged on a child, every sink the parent had when the
\* child was derived is called, in the parent's order, and no sink added to
\* the parent afterwards is.
C10_ChildCallsDerivationTimeSinks ==
    (last.op \in LogOps /\ kin[last.node].parent # 0) =>
        /\ IsPrefix(kin[last.node].sinks, last.called)
        /\ Range(last.called) \subseteq
               Range(kin[last.node].sinks) \cup Range(kin[last.node].added)

\* the textual form of a structured filter specification
TextOf(rule) == IF rule = TwoRules THEN TwoText ELSE SourceText

\* C11: setFilter given a structured filter specification installs the same
\* rules as setFilter given the equivalent text (filter() then returns the
\* same result for every event), and in the text a value written without a
\* level gets level 4.
C11_StructuredEqualsTextual ==
    /\ (last.op = "setFilter" /\ last.params.filter.t = "object") =>
           LET asText == SetFilterOn(last.before,
                             [level |-> last.params.level, filter |-> Str("text"),
                              text |-> TextOf(last.params.filter),
                              filters |-> Undef]).top
           IN  \A c \in EventContexts :
                   filter(last.node, c) = FilterOn(asText, c)
    /\ (last.op = "setFilter" /\ last.params.text = NoLevelText) =>
           /\ Len(RulesInForce(last.node)) = 1
           /\ ToNumber(Get(RulesInForce(last.node)[1][2].o, "aws")) = Num(4)

\* C12: setFilter with a malformed textual filter reports an error to its
\* caller and changes nothing else: the globalLevel and the rules installed
\* before stay in force, and no later log call or filter() evaluation throws.
C12_MalformedFilterIsConfined ==
    /\ (last.op = "setFilter" /\ last.params.text = MalformedText) =>
           /\ last.threw
           /\ logs[logs[last.node].top].level = last.before.level
           /\ \A c \in EventContexts :
                  filter(last.node, c) = FilterOn(last.before, c)
    /\ last.op \in LogOps \cup {"filter"} => ~last.threw

\* the context that applies to the last log call: the node's own context
\* (with what it inherited), overlaid by the context given in the call
Applies == Assign(logs[last.node].context, last.given)

\* C13: when a message is already set in the context that applies to a log
\* call (given in the call or inherited), the event keeps it and the message
\* argument is delivered as subject; otherwise the argument is the message.
C13_ExistingMessageKept ==
    last.op \in LogOps =>
        IF Truthy(Get(Applies, "message"))
        THEN /\ Get(last.event, "message") = Get(Applies, "message")
             /\ Get(last.event, "subject") = last.message
        ELSE Get(last.event, "message") = last.message

\* C14: the event level is the level the caller gave in the context whenever
\* there is one (0 included), otherwise 0 for debug, info, error and
\* exception and 5 for trace; a default trace event is rejected at
\* globalLevel 0 and accepted at globalLevel 5.
C14_EventLevel ==
    last.op \in LogOps =>
        /\ Get(last.event, "level") =
               IF NotNullish(Get(last.given, "level")) THEN Get(last.given, "level")
               ELSE IF last.op = "trace" THEN Num(5) ELSE Num(0)
        /\ (last.op = "trace" /\ ~NotNullish(Get(last.given, "level"))) =>
               LET top == logs[logs[last.node].top]
               IN  /\ top.level = Num(0) =>
                          (filter(last.node, last.event) = "false" /\ ~last.printed)
                   /\ top.level = Num(5) =>
                          (filter(last.node, last.event) = "true" /\ last.printed)

\* C14 witness: a trace call with no level given, made on a child, is
\* printed once globalLevel is 5
C14_Witness ==
    /\ last.op = "trace"
    /\ Get(last.event, "level") = Num(5)
    /\ logs[logs[last.node].top].level = Num(5)
    /\ last.printed
    /\ last.given = NoProps
    /\ kin[last.node].parent # 0

\* C15: the batch a flush gives to the sinks is detached from the pending
\* buffer before any sink runs: every sink called in a flush receives the
\* events that were pending when the flush began, and an event submitted from
\* inside a sink's write goes to the next flush, never into the batch being
\* delivered nor into a recursive flush.
C15_BatchDetached ==
    /\ \A k \in 1..Len(calls) : calls[k].batch = flushes[calls[k].flush].start
    /\ \A f \in 1..Len(flushes) : flushes[f].depth = 1
    /\ \A a \in 1..Len(accepted) :
           accepted[a].flush # 0 =>
               \A k \in 1..Len(calls) :
                   calls[k].flush = accepted[a].flush =>
                       accepted[a].ev \notin Range(calls[k].batch)

\* C16: a rule whose field the event does not carry is skipped: such an
\* event is not rejected by that rule, and it is accepted iff its level <=
\* max(globalLevel, the levels of the rules that did match).
C16_RuleSkippedWhenFieldAbsent ==
    (/\ last.op = "filter"
     /\ \E k \in 1..Len(RulesInForce(last.node)) :
            Get(last.event, RulesInForce(last.node)[k][1]) = Undef
     /\ \A k \in 1..Len(RulesInForce(last.node)) :
            LET r == RulesInForce(last.node)[k]
            IN  Get(last.event, r[1]) # Undef =>
                    PropKey(Get(last.event, r[1])) \in DOMAIN r[2].o)
    => LET rules == RulesInForce(last.node)
           e == last.event
           matched == {k \in 1..Len(rules) : Get(e, rules[k][1]) # Undef}
           levels == {ToNumber(RuleLevel(rules[k], e)).n : k \in matched}
           global == logs[logs[last.node].top].level
       IN  IF \E x \in levels : x < 0 THEN last.ret = "false"
           ELSE (last.ret = "true" <=>
                     Get(e, "level").n <= MaxOf(levels \cup {global.n}))

\* the root of the tree Log n belongs to, following the parents
RECURSIVE RootOf(_)
RootOf(n) == IF kin[n].parent = 0 THEN n ELSE RootOf(kin[n].parent)

\* C17: the decision for an event is made with the rules and globalLevel of
\* the root of the submitting node's tree: top is that root at any depth,
\* setFilter on any node sets that root's level, and another Log constructed
\* or configured, or a child derived, never changes whose filter applies.
C17_DecisionByOwnRoot ==
    /\ \A n \in Nodes : logs[n].top = RootOf(n)
    /\ last.op = "setFilter" =>
           \A n \in Nodes :
               RootOf(n) = RootOf(last.node) =>
                   logs[logs[n].top].level = last.params.level
    /\ last.op \in LogOps =>
           (last.printed <=> FilterOn(logs[RootOf(last.node)], last.event) = "true")

\* C18: an event the filter rejects has no observable effect: no sink's
\* write is called for it and nothing is printed.
C18_RejectedEventNoEffect ==
    (/\ last.op \in LogOps
     /\ FilterOn(logs[logs[last.node].top], last.event) = "false")
    => /\ ~last.printed
       /\ \A k \in 1..Len(last.called) : last.called[k] = "DefaultLogger"

\* C19: a log call leaves the context object and the ops object the caller
\* passed as they were.
C19_CallerObjectsUnchanged ==
    [][last'.op \in LogOps => held' = held]_vars

\* C20: after setFilter({level: n}), n an integer >= 0, the root's
\* globalLevel is n whatever it was before (0 after 5 included), and events
\* with a level above n are rejected.
C20_LevelIsSet ==
    (/\ last.op = "setFilter"
     /\ last.params.level.t = "number"
     /\ last.params.level.n >= 0)
    => /\ logs[logs[last.node].top].level = last.params.level
       /\ filter(last.node, [level |-> Num(last.params.level.n + 1)]) = "false"

====
